---------------------------- MODULE Spec2Model ----------------------------
(***************************************************************************)
(* A model of the personal-api service (src/src/main.rs): a warp server    *)
(* with three routes, GET /health, GET /api/resume and POST /api/contact.  *)
(* Strings are sequences of Unicode code points.  A request is followed    *)
(* from its arrival to its response; a handler is split only where its     *)
(* code can be interleaved with other requests: at the awaited gateway     *)
(* call of send_brevo_email and around the blocking fs::read of            *)
(* handle_resume.                                                          *)
(***************************************************************************)
EXTENDS Integers, Sequences, FiniteSets, TLC

(***************************************************************************)
(* Bounds of the model.                                                    *)
(***************************************************************************)
MaxRequests == 2
MaxWorkers == 2
MaxLen == 3

(***************************************************************************)
(* Program constants: the length bounds of ContactForm.                    *)
(***************************************************************************)
NAME_MIN == 1
NAME_MAX == 100
PHONE_MIN == 10
PHONE_MAX == 20
MESSAGE_MIN == 1
MESSAGE_MAX == 1000

VARIABLES
    running,      \* the server process is up and serving
    env,          \* the process environment: which variables are set
    file,         \* the resume asset on disk: present, readable, its bytes
    workers,      \* worker threads of the tokio runtime (one per core)
    nextId,       \* ids minted so far + 1
    requests,     \* request number -> the state of its handling
    fin,          \* input of the pure function under check
    fout,         \* the results of its applications, in order
    fpc           \* position of the pure-function harness

vars == <<running, env, file, workers, nextId, requests, fin, fout, fpc>>
serverVars == <<running, env, file, workers, nextId, requests>>
fnVars == <<fin, fout, fpc>>

(***************************************************************************)
(* Characters and strings.                                                 *)
(***************************************************************************)
\* '\0', named by the filter of sanitize_input
NUL == 0
\* '\n', named by the message's replace in send_brevo_email
LF == 10

\* char::is_control: the general category Cc
IsControl(c) == (0 <= c /\ c <= 31) \/ (127 <= c /\ c <= 159)

\* char::is_whitespace: the White_Space property, which str::trim strips
IsWhitespace(c) ==
    \/ (9 <= c /\ c <= 13)
    \/ c \in {32, 133, 160, 5760, 8232, 8233, 8239, 8287, 12288}
    \/ (8192 <= c /\ c <= 8202)

Min(S) == CHOOSE x \in S : \A y \in S : x <= y
Max(S) == CHOOSE x \in S : \A y \in S : y <= x

\* the positions of the characters that are not white space
Solid(s) == {i \in 1..Len(s) : ~IsWhitespace(s[i])}

\* str::trim: what lies between the first and the last character that is
\* not white space
Trim(s) == IF Solid(s) = {} THEN <<>> ELSE SubSeq(s, Min(Solid(s)), Max(Solid(s)))

\* the filter of sanitize_input: |c| !c.is_control() && *c != '\0'
Keep(c) == ~IsControl(c) /\ c # NUL

FilterChars(s) == SelectSeq(s, Keep)

\* a plausible slip: trimming before the control characters are removed
sanitize_trim_first(input) ==
    CHOOSE out \in {FilterChars(trimmed) : trimmed \in {Trim(input)}} : TRUE

\* input.chars().filter(..).collect::<String>().trim().to_string(): the
\* filtered string is collected, then trimmed
sanitize_input(input) ==
    CHOOSE out \in {Trim(collected) : collected \in {FilterChars(input)}} : TRUE

HasControl(s) == \E i \in 1..Len(s) : IsControl(s[i]) \/ s[i] = NUL

Pad(n, c) == [i \in 1..n |-> c]

\* str::replace('\n', "<br>")
RECURSIVE ReplaceNewline(_)
ReplaceNewline(s) ==
    IF s = <<>> THEN <<>>
    ELSE IF Head(s) = LF THEN <<60, 98, 114, 62>> \o ReplaceNewline(Tail(s))
    ELSE <<Head(s)>> \o ReplaceNewline(Tail(s))

(***************************************************************************)
(* Input Validator: #[derive(Validate)] on ContactForm.                    *)
(***************************************************************************)
IsAlnum(c) == (48 <= c /\ c <= 57) \/ (65 <= c /\ c <= 90) \/ (97 <= c /\ c <= 122)

\* the characters of an email's local part: a-z0-9.!#$%&'*+/=?^_`{|}~-
IsUserChar(c) ==
    IsAlnum(c) \/ c \in {46, 33, 35, 36, 37, 38, 39, 42, 43, 47, 61, 63,
                         94, 95, 96, 123, 124, 125, 126, 45}

Positions(s, c) == {i \in 1..Len(s) : s[i] = c}

\* the labels of a domain: the runs between its dots and its ends
Labels(d) ==
    LET cuts == Positions(d, 46) \cup {0, Len(d) + 1}
    IN  {SubSeq(d, a + 1, b - 1) :
            <<a, b>> \in {c \in cuts \X cuts :
                            c[1] < c[2] /\ \A x \in cuts : ~(c[1] < x /\ x < c[2])}}

\* one label of a domain: [a-z0-9](?:[a-z0-9-]{0,61}[a-z0-9])?
LabelOk(l) ==
    /\ 1 <= Len(l) /\ Len(l) <= 63
    /\ IsAlnum(l[1]) /\ IsAlnum(l[Len(l)])
    /\ \A i \in 1..Len(l) : IsAlnum(l[i]) \/ l[i] = 45

DomainOk(d) == \A l \in Labels(d) : LabelOk(l)

\* #[validate(email)]: the value holds an '@'; the part before the last '@'
\* is a run of 1..64 local-part characters and the part after it is a
\* dot-separated list of labels of at most 255 characters.  (Domain
\* literals and internationalised domains need '[' or non-ASCII characters,
\* which no input of this model holds.)
validate_email(val) ==
    IF val = <<>> \/ Positions(val, 64) = {} THEN FALSE
    ELSE LET at     == Max(Positions(val, 64))
             user   == SubSeq(val, 1, at - 1)
             domain == SubSeq(val, at + 1, Len(val))
         IN  /\ Len(user) <= 64 /\ Len(domain) <= 255
             /\ user # <<>>
             /\ \A i \in 1..Len(user) : IsUserChar(user[i])
             /\ DomainOk(domain)

\* a plausible slip: the upper bound taken as exclusive
validate_length_exclusive(value, min, max) == min <= Len(value) /\ Len(value) < max

\* #[validate(length(min = .., max = ..))]: the number of characters
validate_length(value, min, max) == min <= Len(value) /\ Len(value) <= max

\* a plausible slip: the phone number's length is not checked
validate_without_phone(form) ==
    {f \in {"email"} : ~validate_email(form.email)}
    \cup {f \in {"first_name"} : ~validate_length(form.first_name, NAME_MIN, NAME_MAX)}
    \cup {f \in {"last_name"} : ~validate_length(form.last_name, NAME_MIN, NAME_MAX)}
    \cup {f \in {"message"} : ~validate_length(form.message, MESSAGE_MIN, MESSAGE_MAX)}

\* form.validate(): the fields that violate their constraint
validate(form) ==
    {f \in {"email"} : ~validate_email(form.email)}
    \cup {f \in {"first_name"} : ~validate_length(form.first_name, NAME_MIN, NAME_MAX)}
    \cup {f \in {"last_name"} : ~validate_length(form.last_name, NAME_MIN, NAME_MAX)}
    \cup {f \in {"phone_number"} : ~validate_length(form.phone_number, PHONE_MIN, PHONE_MAX)}
    \cup {f \in {"message"} : ~validate_length(form.message, MESSAGE_MIN, MESSAGE_MAX)}

ContactForm(e, f, l, p, m) ==
    [email |-> e, first_name |-> f, last_name |-> l, phone_number |-> p, message |-> m]

(***************************************************************************)
(* Requests.                                                               *)
(***************************************************************************)
Requests == 1..MaxRequests

Routes == {"health", "resume", "contact"}

EmptyForm == ContactForm(<<>>, <<>>, <<>>, <<>>, <<>>)

\* a request that has not arrived yet
NoRequest ==
    [pc |-> "new", route |-> "none", form |-> EmptyForm, sanitized |-> <<>>,
     id |-> 0, log |-> <<>>, calls |-> 0, outbound |-> <<>>, gateway |-> <<>>,
     resp |-> <<>>]

\* worker threads held by a handler inside a blocking call
Busy == Cardinality({r \in Requests : requests[r].pc = "reading"})

\* a worker thread is free to poll a task
FreeWorker == Busy < workers

(***************************************************************************)
(* Email Gateway Client: send_brevo_email.                                 *)
(***************************************************************************)
EnvNames ==
    {"BREVO_API_KEY", "BREVO_SENDER_EMAIL", "BREVO_SENDER_NAME", "CONTACT_RECIPIENT_EMAIL"}

EnvValue(name) ==
    CASE name = "BREVO_API_KEY" -> "xkeysib-1"
      [] name = "BREVO_SENDER_EMAIL" -> "noreply@example.com"
      [] name = "BREVO_SENDER_NAME" -> "Website"
      [] name = "CONTACT_RECIPIENT_EMAIL" -> "owner@example.com"

ConfigError(name) ==
    [ok |-> FALSE, error |-> name \o " environment variable not set",
     api_key |-> "", sender_email |-> "", sender_name |-> "", recipient_email |-> ""]

\* a plausible slip: the recipient is required like the other three
resolve_config_strict(e) ==
    IF ~e["BREVO_API_KEY"] THEN ConfigError("BREVO_API_KEY")
    ELSE IF ~e["BREVO_SENDER_EMAIL"] THEN ConfigError("BREVO_SENDER_EMAIL")
    ELSE IF ~e["BREVO_SENDER_NAME"] THEN ConfigError("BREVO_SENDER_NAME")
    ELSE IF ~e["CONTACT_RECIPIENT_EMAIL"] THEN ConfigError("CONTACT_RECIPIENT_EMAIL")
    ELSE [ok |-> TRUE, error |-> "",
          api_key |-> EnvValue("BREVO_API_KEY"),
          sender_email |-> EnvValue("BREVO_SENDER_EMAIL"),
          sender_name |-> EnvValue("BREVO_SENDER_NAME"),
          recipient_email |-> EnvValue("CONTACT_RECIPIENT_EMAIL")]

\* a plausible slip: the sender name falls back to a default instead of failing
resolve_config_lenient(e) ==
    IF ~e["BREVO_API_KEY"] THEN ConfigError("BREVO_API_KEY")
    ELSE IF ~e["BREVO_SENDER_EMAIL"] THEN ConfigError("BREVO_SENDER_EMAIL")
    ELSE [ok |-> TRUE, error |-> "",
          api_key |-> EnvValue("BREVO_API_KEY"),
          sender_email |-> EnvValue("BREVO_SENDER_EMAIL"),
          sender_name |-> IF e["BREVO_SENDER_NAME"]
                          THEN EnvValue("BREVO_SENDER_NAME") ELSE "Contact Form",
          recipient_email |-> IF e["CONTACT_RECIPIENT_EMAIL"]
                              THEN EnvValue("CONTACT_RECIPIENT_EMAIL")
                              ELSE EnvValue("BREVO_SENDER_EMAIL")]

\* the four env::var reads of send_brevo_email, in their order
resolve_config(e) ==
    IF ~e["BREVO_API_KEY"] THEN ConfigError("BREVO_API_KEY")
    ELSE IF ~e["BREVO_SENDER_EMAIL"] THEN ConfigError("BREVO_SENDER_EMAIL")
    ELSE IF ~e["BREVO_SENDER_NAME"] THEN ConfigError("BREVO_SENDER_NAME")
    ELSE [ok |-> TRUE, error |-> "",
          api_key |-> EnvValue("BREVO_API_KEY"),
          sender_email |-> EnvValue("BREVO_SENDER_EMAIL"),
          sender_name |-> EnvValue("BREVO_SENDER_NAME"),
          recipient_email |-> IF e["CONTACT_RECIPIENT_EMAIL"]
                              THEN EnvValue("CONTACT_RECIPIENT_EMAIL")
                              ELSE EnvValue("BREVO_SENDER_EMAIL")]

\* The BrevoEmail posted to the gateway.  subject and html_content are kept
\* as the arguments interpolated into their format strings, in order.
BrevoEmail(contact_form, contact_id, cfg) ==
    [api_key |-> cfg.api_key,
     sender |-> [name |-> cfg.sender_name, email |-> cfg.sender_email],
     to |-> <<[email |-> cfg.recipient_email, name |-> "Contact Form"]>>,
     subject |-> <<contact_form.first_name, contact_form.last_name>>,
     html_content |-> <<contact_form.first_name, contact_form.last_name,
                        contact_form.email, contact_form.phone_number,
                        ReplaceNewline(contact_form.message)>>,
     html_id |-> contact_id]

\* a plausible slip: only the status 200 counts as success
is_success_only_200(status) == status = 200

\* StatusCode::is_success
is_success(status) == 200 <= status /\ status < 300

\* what the awaited POST can come back with
GatewayStatuses == {200, 299, 300, 500}

GatewayResults ==
    [kind : {"http"}, status : GatewayStatuses, text : {"body"}]
    \cup {[kind |-> "transport", status |-> 0, text |-> "error sending request"]}

\* the Result of send_brevo_email once the POST has come back
SendResult(gw) ==
    IF gw.kind = "http" /\ is_success(gw.status)
    THEN [ok |-> TRUE, error |-> ""]
    ELSE IF gw.kind = "http"
    THEN [ok |-> FALSE, error |-> "Failed to send email: " \o gw.text]
    ELSE [ok |-> FALSE, error |-> gw.text]

\* the log lines send_brevo_email writes after the POST has come back
SendLog(gw, contact_id) ==
    IF gw.kind = "http" /\ is_success(gw.status)
    THEN <<[level |-> "info", line |-> "Email sent successfully via Brevo", args |-> <<contact_id>>]>>
    ELSE IF gw.kind = "http"
    THEN <<[level |-> "error", line |-> "Failed to send email via Brevo", args |-> <<gw.text>>]>>
    ELSE <<>>

(***************************************************************************)
(* Responses.                                                              *)
(***************************************************************************)
HealthReply == [status |-> 200, content_type |-> "application/json", body |-> [status |-> "ok"]]

NotFoundReply ==
    [status |-> 404, content_type |-> "application/json", body |-> [error |-> "Resume not found"]]

ReadFailedReply ==
    [status |-> 500, content_type |-> "application/json", body |-> [error |-> "Failed to read resume"]]

PdfReply(pdf_data) == [status |-> 200, content_type |-> "application/pdf", body |-> pdf_data]

ValidationReply(validation_errors) ==
    [status |-> 400, content_type |-> "application/json",
     body |-> [success |-> FALSE, message |-> "Validation failed", errors |-> validation_errors]]

\* the match on send_brevo_email's result in handle_contact
ContactReply(result, contact_id) ==
    IF result.ok
    THEN [status |-> 200, content_type |-> "application/json",
          body |-> [success |-> TRUE,
                    message |-> "Thank you for your message. We'll get back to you soon!",
                    id |-> contact_id]]
    ELSE [status |-> 500, content_type |-> "application/json",
          body |-> [success |-> FALSE,
                    message |-> "Your message was received, but there was an issue sending the notification email. Please try again or contact us directly.",
                    id |-> contact_id]]

\* the log line of handle_contact for the result of send_brevo_email
ContactLog(result, contact_id) ==
    IF result.ok
    THEN <<[level |-> "info", line |-> "Contact form email sent successfully", args |-> <<contact_id>>]>>
    ELSE <<[level |-> "error", line |-> "Failed to send contact form email", args |-> <<contact_id, result.error>>]>>

(***************************************************************************)
(* Inputs.                                                                 *)
(***************************************************************************)
GoodEmail == <<97, 64, 98, 46, 99>>
BadEmail == <<110, 111, 116>>
GoodPhone == Pad(PHONE_MIN, 53)

\* a clean submission; one with control characters in four fields; one with a
\* malformed email, a short phone number and an empty message
ServerForms ==
    { ContactForm(GoodEmail, <<65, 108>>, <<76, 105>>, GoodPhone, <<104, 105>>),
      ContactForm(GoodEmail, <<65, 7>>, <<NUL, 76>>, Pad(PHONE_MIN - 1, 53) \o <<9>>,
                  <<104, LF, 9, 105>>),
      ContactForm(BadEmail, <<65, 7>>, <<76, 105>>, Pad(PHONE_MIN - 1, 53), <<>>) }

PdfBytes == <<37, 80, 68, 70>>

Files ==
    { [exists |-> FALSE, readable |-> FALSE, bytes |-> <<>>],
      [exists |-> TRUE, readable |-> TRUE, bytes |-> PdfBytes \o <<0, 255>>],
      [exists |-> TRUE, readable |-> FALSE, bytes |-> PdfBytes] }

(***************************************************************************)
(* The server.                                                             *)
(***************************************************************************)
\* the environments the process can start in: every variable set, the
\* optional recipient unset, each required variable unset, nothing set
Environments ==
    {e \in [EnvNames -> BOOLEAN] :
        \/ Cardinality({n \in EnvNames : ~e[n]}) <= 1
        \/ \A n \in EnvNames : ~e[n]}

FnOff == fin = <<>> /\ fout = <<>> /\ fpc = "off"

\* main: the environment is loaded, the routes are bound and the server runs
Init ==
    /\ running = TRUE
    /\ env \in Environments
    /\ file \in Files
    /\ workers \in 1..MaxWorkers
    /\ nextId = 1
    /\ requests = [r \in Requests |-> NoRequest]
    /\ FnOff

\* a request is accepted and routed; a POST /api/contact body has parsed
Arrive(r) ==
    /\ running
    /\ requests[r].pc = "new"
    /\ \A q \in Requests : q < r => requests[q].pc # "new"
    /\ \E route \in Routes :
         \E form \in (IF route = "contact" THEN ServerForms ELSE {EmptyForm}) :
            requests' = [requests EXCEPT ![r] =
                            [@ EXCEPT !.pc = "pending", !.route = route, !.form = form]]
    /\ UNCHANGED <<running, env, file, workers, nextId, fnVars>>

\* GET /health: the map closure of main
Health(r) ==
    /\ running
    /\ requests[r].pc = "pending" /\ requests[r].route = "health"
    /\ FreeWorker
    /\ requests' = [requests EXCEPT ![r] = [@ EXCEPT !.pc = "done", !.resp = <<HealthReply>>]]
    /\ UNCHANGED <<running, env, file, workers, nextId, fnVars>>

\* handle_resume up to fs::read: the existence check
ResumeBegin(r) ==
    /\ running
    /\ requests[r].pc = "pending" /\ requests[r].route = "resume"
    /\ FreeWorker
    /\ requests' = [requests EXCEPT ![r] =
                      IF ~file.exists
                      THEN [@ EXCEPT !.pc = "done", !.resp = <<NotFoundReply>>]
                      ELSE [@ EXCEPT !.pc = "reading"]]
    /\ UNCHANGED <<running, env, file, workers, nextId, fnVars>>

\* a plausible slip: a failed read reported as a missing file
resume_reply_not_found(f) == IF f.readable THEN PdfReply(f.bytes) ELSE NotFoundReply

\* the reply of handle_resume for the outcome of fs::read
resume_reply(f) == IF f.readable THEN PdfReply(f.bytes) ELSE ReadFailedReply

\* handle_resume from the return of fs::read, which held the worker thread
ResumeRead(r) ==
    /\ running
    /\ requests[r].pc = "reading"
    /\ requests' = [requests EXCEPT ![r] =
                      [@ EXCEPT !.pc = "done", !.resp = <<resume_reply(file)>>]]
    /\ UNCHANGED <<running, env, file, workers, nextId, fnVars>>

\* the fields handle_contact sanitizes
Sanitized(form) ==
    [email |-> sanitize_input(form.email),
     first_name |-> sanitize_input(form.first_name),
     last_name |-> sanitize_input(form.last_name),
     phone_number |-> sanitize_input(form.phone_number),
     message |-> sanitize_input(form.message)]

SubmittedLog(s, contact_id) ==
    [level |-> "info", line |-> "Contact form submitted",
     args |-> <<s.first_name, s.last_name, s.email, contact_id>>]

AttemptLog(contact_id) ==
    [level |-> "debug", line |-> "Attempting to send email via Brevo", args |-> <<contact_id>>]

UsingLog(cfg) ==
    [level |-> "debug", line |-> "Using sender",
     args |-> <<cfg.sender_name, cfg.sender_email, cfg.recipient_email>>]

\* form.validate() and the sanitized fields of each submission the server is
\* sent, computed once
ValidateTable == [f \in ServerForms |-> validate(f)]
SanitizedTable == [f \in ServerForms |-> Sanitized(f)]

\* handle_contact up to the awaited POST of send_brevo_email
ContactBegin(r) ==
    /\ running
    /\ requests[r].pc = "pending" /\ requests[r].route = "contact"
    /\ FreeWorker
    /\ \E form \in {requests[r].form}, id \in {nextId}, cfg \in {resolve_config(env)} :
       \E errors \in {ValidateTable[form]}, s \in {SanitizedTable[form]},
          failed \in {[ok |-> FALSE, error |-> cfg.error]} :
           IF errors # {}
           THEN /\ requests' = [requests EXCEPT ![r] =
                       [@ EXCEPT !.pc = "done", !.resp = <<ValidationReply(errors)>>]]
                /\ UNCHANGED nextId
           ELSE IF ~cfg.ok
           THEN /\ requests' = [requests EXCEPT ![r] =
                       [@ EXCEPT !.pc = "done", !.sanitized = <<s>>, !.id = id, !.calls = @ + 1,
                                 !.gateway = <<[kind |-> "config", status |-> 0, text |-> cfg.error]>>,
                                 !.log = <<SubmittedLog(s, id), AttemptLog(id)>>
                                         \o ContactLog(failed, id),
                                 !.resp = <<ContactReply(failed, id)>>]]
                /\ nextId' = nextId + 1
           ELSE /\ requests' = [requests EXCEPT ![r] =
                       [@ EXCEPT !.pc = "sending", !.sanitized = <<s>>, !.id = id, !.calls = @ + 1,
                                 !.log = <<SubmittedLog(s, id), AttemptLog(id), UsingLog(cfg)>>,
                                 !.outbound = Append(@, BrevoEmail(form, id, cfg))]]
                /\ nextId' = nextId + 1
    /\ UNCHANGED <<running, env, file, workers, fnVars>>

\* a plausible slip: the error of send_brevo_email is unwrapped, not matched,
\* and the task ends without a reply
after_send_unwrap(result) == IF result.ok THEN "done" ELSE "panicked"

\* where handle_contact stands once send_brevo_email has returned
after_send(result) == "done"

\* the POST comes back; send_brevo_email returns and handle_contact replies
GatewayReply(r) ==
    /\ running
    /\ requests[r].pc = "sending"
    /\ FreeWorker
    /\ \E gw \in GatewayResults :
         \E result \in {SendResult(gw)}, id \in {requests[r].id} :
             requests' = [requests EXCEPT ![r] =
                 IF after_send(result) = "done"
                 THEN [@ EXCEPT !.pc = "done", !.gateway = <<gw>>,
                                !.log = @ \o SendLog(gw, id) \o ContactLog(result, id),
                                !.resp = Append(@, ContactReply(result, id))]
                 ELSE [@ EXCEPT !.pc = after_send(result)]]
    /\ UNCHANGED <<running, env, file, workers, nextId, fnVars>>

Handle(r) ==
    \/ Health(r)
    \/ ResumeBegin(r)
    \/ ResumeRead(r)
    \/ ContactBegin(r)
    \/ GatewayReply(r)

Next == \E r \in Requests : Arrive(r) \/ Handle(r)

Spec == Init /\ [][Next]_vars

\* the server started with its configuration complete or empty, and with
\* a readable resume asset
InitFair ==
    /\ Init
    /\ file.readable
    /\ \/ \A n \in EnvNames : env[n]
       \/ \A n \in EnvNames : ~env[n]

\* every accepted request's task is polled again, every blocking read returns
\* and every POST comes back
FairSpec == InitFair /\ [][Next]_vars /\ \A r \in Requests : WF_vars(Handle(r))

(***************************************************************************)
(* The pure functions on their own: sanitize_input applied once and again, *)
(* and ContactForm's validation applied to a parsed body.                  *)
(***************************************************************************)
ServerOff ==
    /\ running = FALSE
    /\ env = [n \in EnvNames |-> FALSE]
    /\ file = [exists |-> FALSE, readable |-> FALSE, bytes |-> <<>>]
    /\ workers = 1
    /\ nextId = 1
    /\ requests = [r \in Requests |-> NoRequest]

\* NUL, LF, space, 'a', DEL, NEL (control and white space), no-break space
SanitizeAlphabet == {NUL, LF, 32, 97, 127, 133, 160}

Strings(n) == UNION {[1..k -> SanitizeAlphabet] : k \in 0..n}

InitSanitize ==
    /\ ServerOff
    /\ fin \in Strings(MaxLen)
    /\ fout = <<>>
    /\ fpc = "input"

SanitizeOnce ==
    /\ fpc = "input"
    /\ fout' = <<sanitize_input(fin)>>
    /\ fpc' = "once"
    /\ UNCHANGED <<fin, serverVars>>

SanitizeAgain ==
    /\ fpc = "once"
    /\ fout' = Append(fout, sanitize_input(fout[1]))
    /\ fpc' = "twice"
    /\ UNCHANGED <<fin, serverVars>>

NextSanitize == SanitizeOnce \/ SanitizeAgain

SpecSanitize == InitSanitize /\ [][NextSanitize]_vars

EmailInputs ==
    { GoodEmail, BadEmail, <<>>,
      <<97, 64, 98>>,                   \* a@b
      <<97, 64>>,                       \* a@
      <<64, 98>>,                       \* @b
      <<97, 32, 98, 64, 99>>,           \* a b@c
      <<97, 64, 98, 64, 99>>,           \* a@b@c
      <<97, 64, 45, 98>>,               \* a@-b
      <<97, 64, 98, 46, 46, 99>>,       \* a@b..c
      <<97, LF, 64, 98>>,               \* a\n@b
      Pad(65, 97) \o <<64, 98>> }       \* a local part of 65 characters

NameInputs == {Pad(n, 97) : n \in {NAME_MIN - 1, NAME_MIN, NAME_MAX, NAME_MAX + 1}}
PhoneInputs == {Pad(n, 53) : n \in {PHONE_MIN - 1, PHONE_MIN, PHONE_MAX, PHONE_MAX + 1}}
MessageInputs == {Pad(n, 109) : n \in {MESSAGE_MIN - 1, MESSAGE_MIN, MESSAGE_MAX, MESSAGE_MAX + 1}}

ValidationForms ==
    {ContactForm(e, f, l, p, m) :
        e \in EmailInputs, f \in NameInputs, l \in NameInputs,
        p \in PhoneInputs, m \in MessageInputs}

InitValidate ==
    /\ ServerOff
    /\ fin \in ValidationForms
    /\ fout = <<>>
    /\ fpc = "parsed"

ValidateForm ==
    /\ fpc = "parsed"
    /\ fout' = <<validate(fin)>>
    /\ fpc' = "validated"
    /\ UNCHANGED <<fin, serverVars>>

NextValidate == ValidateForm

SpecValidate == InitValidate /\ [][NextValidate]_vars

(***************************************************************************)
(* The claims.                                                             *)
(***************************************************************************)
\* the field constraints of a submission, as the specification states them
FieldViolations(form) ==
    {f \in {"email"} : ~validate_email(form.email)}
    \cup {f \in {"first_name"} : ~(Len(form.first_name) \in 1..100)}
    \cup {f \in {"last_name"} : ~(Len(form.last_name) \in 1..100)}
    \cup {f \in {"phone_number"} : ~(Len(form.phone_number) \in 10..20)}
    \cup {f \in {"message"} : ~(Len(form.message) \in 1..1000)}

\* the violations of each submission the server is sent, computed once
ServerViolations == [form \in ServerForms |-> FieldViolations(form)]

FieldsOk(form) == ServerViolations[form] = {}

IsContact(r) == requests[r].route = "contact"
Started(r) == requests[r].pc \in {"sending", "done"}
Done(r) == requests[r].pc = "done"
Accepted(r) == IsContact(r) /\ Started(r) /\ FieldsOk(requests[r].form)

RequiredSet == env["BREVO_API_KEY"] /\ env["BREVO_SENDER_EMAIL"] /\ env["BREVO_SENDER_NAME"]

Answered2xx(r) ==
    /\ requests[r].gateway # <<>>
    /\ requests[r].gateway[1].kind = "http"
    /\ requests[r].gateway[1].status \in 200..299

\* C1: a valid submission's response carries success, message and the id
\* minted for it (an id no other request has), and is 200 with success:true
\* exactly when the gateway answered 2xx, else 500 with success:false.
C1_ContactOutcome ==
    \A r \in Requests :
        (Accepted(r) /\ Done(r)) =>
            /\ Len(requests[r].resp) = 1
            /\ Len(requests[r].gateway) = 1
            /\ LET resp == requests[r].resp[1]
               IN  /\ DOMAIN resp.body = {"success", "message", "id"}
                   /\ resp.body.message # ""
                   /\ resp.body.id = requests[r].id
                   /\ requests[r].id >= 1
                   /\ \A q \in Requests \ {r} : requests[q].id # requests[r].id
                   /\ IF Answered2xx(r)
                      THEN resp.status = 200 /\ resp.body.success = TRUE
                      ELSE resp.status = 500 /\ resp.body.success = FALSE

C1_Witness ==
    \E r, q \in Requests :
        /\ Accepted(r) /\ Done(r) /\ requests[r].resp[1].status = 200
        /\ requests[r].gateway[1].status = 299
        /\ Accepted(q) /\ Done(q) /\ requests[q].resp[1].status = 500
        /\ requests[q].gateway[1].kind = "transport"
        /\ requests[q].resp[1].body.id # requests[r].resp[1].body.id

\* C2: a submission that violates a field constraint is answered 400 with
\* success:false, "Validation failed" and the violations, and is neither
\* sanitized, given an id, logged nor sent.
C2_ValidationFailure ==
    /\ \A r \in Requests :
        (IsContact(r) /\ Started(r) /\ ~FieldsOk(requests[r].form)) =>
            /\ Done(r)
            /\ requests[r].resp =
                 <<[status |-> 400, content_type |-> "application/json",
                    body |-> [success |-> FALSE, message |-> "Validation failed",
                              errors |-> ServerViolations[requests[r].form]]]>>
            /\ requests[r].sanitized = <<>>
            /\ requests[r].id = 0
            /\ requests[r].log = <<>>
            /\ requests[r].calls = 0
            /\ requests[r].outbound = <<>>
            /\ requests[r].gateway = <<>>
    /\ nextId = 1 + Cardinality({r \in Requests : Accepted(r)})

C2_Witness ==
    \E r, q \in Requests :
        /\ r # q
        /\ IsContact(r) /\ Done(r) /\ requests[r].resp[1].status = 400
        /\ requests[r].resp[1].body.errors = {"email", "phone_number", "message"}
        /\ HasControl(requests[r].form.first_name)
        /\ Accepted(q) /\ Done(q) /\ requests[q].id = 1

\* C3 as stated: every submission that passes validation has produced
\* exactly one outbound email attempt by the time it is answered.
C3_ExactlyOneAttempt ==
    \A r \in Requests :
        (Accepted(r) /\ Done(r)) => Len(requests[r].outbound) = 1

\* C3 as amended: every submission that passes validation calls the gateway
\* client exactly once and makes at most one outbound attempt: exactly one
\* when the three required variables are set, none when one is unset.
C3_AttemptsByConfig ==
    \A r \in Requests :
        Accepted(r) =>
            /\ requests[r].calls = 1
            /\ Len(requests[r].outbound) = (IF RequiredSet THEN 1 ELSE 0)

C3_Witness ==
    \E r \in Requests :
        /\ Accepted(r) /\ Done(r)
        /\ requests[r].gateway[1].kind = "http" /\ requests[r].gateway[1].status = 500
        /\ Len(requests[r].outbound) = 1

\* C4: with a required variable unset a valid submission is answered 500,
\* success:false and its id, with no call to the gateway, and the server
\* stays up: further requests can arrive, and an arrived one can be handled
\* unless a resume read holds the worker threads.  An unset
\* CONTACT_RECIPIENT_EMAIL is no error and the recipient is the sender email.
C4_ConfigError ==
    \A r \in Requests :
        Accepted(r) =>
            IF RequiredSet
            THEN /\ Len(requests[r].outbound) = 1
                 /\ \A i \in 1..Len(requests[r].gateway) : requests[r].gateway[i].kind # "config"
                 /\ ~env["CONTACT_RECIPIENT_EMAIL"] =>
                      /\ Len(requests[r].outbound[1].to) = 1
                      /\ requests[r].outbound[1].to[1].email = EnvValue("BREVO_SENDER_EMAIL")
            ELSE /\ Done(r)
                 /\ requests[r].outbound = <<>>
                 /\ requests[r].gateway[1].kind = "config"
                 /\ Len(requests[r].resp) = 1
                 /\ requests[r].resp[1].status = 500
                 /\ requests[r].resp[1].body.success = FALSE
                 /\ requests[r].resp[1].body.id = requests[r].id
                 /\ requests[r].id >= 1
                 /\ running
                 /\ \A q \in Requests :
                       requests[q].pc = "new" /\ (\A p \in Requests : p < q => requests[p].pc # "new")
                           => ENABLED Arrive(q)
                 /\ \A q \in Requests :
                       requests[q].pc = "pending" =>
                           \/ ENABLED Handle(q)
                           \/ \E p \in Requests : requests[p].pc = "reading"

\* a request answered after one that failed on its configuration
C4_Witness ==
    \E r, q \in Requests :
        /\ ~env["BREVO_SENDER_NAME"] /\ env["BREVO_API_KEY"] /\ env["BREVO_SENDER_EMAIL"]
        /\ Accepted(r) /\ Done(r) /\ requests[r].id = 1
        /\ requests[r].resp[1].status = 500
        /\ Accepted(q) /\ Done(q) /\ requests[q].id = 2

\* C5: validation passes exactly when the email matches the grammar and
\* every length lies in its inclusive range: names 1..100, phone 10..20,
\* message 1..1000.
C5_ValidationBounds ==
    fpc = "validated" =>
        /\ (fout[1] = {}) <=>
              /\ validate_email(fin.email)
              /\ 1 <= Len(fin.first_name) /\ Len(fin.first_name) <= 100
              /\ 1 <= Len(fin.last_name) /\ Len(fin.last_name) <= 100
              /\ 10 <= Len(fin.phone_number) /\ Len(fin.phone_number) <= 20
              /\ 1 <= Len(fin.message) /\ Len(fin.message) <= 1000
        /\ Len(fin.first_name) \in {0, 101} => "first_name" \in fout[1]
        /\ Len(fin.last_name) \in {0, 101} => "last_name" \in fout[1]
        /\ Len(fin.phone_number) \in {9, 21} => "phone_number" \in fout[1]
        /\ Len(fin.message) \in {0, 1001} => "message" \in fout[1]
        /\ Len(fin.first_name) \in {1, 100} => "first_name" \notin fout[1]
        /\ Len(fin.last_name) \in {1, 100} => "last_name" \notin fout[1]
        /\ Len(fin.phone_number) \in {10, 20} => "phone_number" \notin fout[1]
        /\ Len(fin.message) \in {1, 1000} => "message" \notin fout[1]

C5_Witness ==
    /\ fpc = "validated"
    /\ fout[1] = {}
    /\ Len(fin.first_name) = 100 /\ Len(fin.last_name) = 1
    /\ Len(fin.phone_number) = 20 /\ Len(fin.message) = 1000

\* C6: sanitize_input applied to its own result changes nothing, and its
\* result holds no control character, no null character and no leading or
\* trailing white space.
C6_SanitizeIdempotent ==
    /\ fpc \in {"once", "twice"} =>
          LET s == fout[1]
          IN  /\ \A i \in 1..Len(s) : ~IsControl(s[i]) /\ s[i] # 0
              /\ s # <<>> => ~IsWhitespace(s[1]) /\ ~IsWhitespace(s[Len(s)])
    /\ fpc = "twice" => fout[2] = fout[1]
    /\ fpc = "input" => ENABLED SanitizeOnce

C6_Witness ==
    /\ fpc = "twice"
    /\ Len(fin) = 3 /\ fin[1] = 0 /\ fin[2] = 160 /\ fin[3] = 97
    /\ fout[1] = <<97>>

\* C7: GET /api/resume answers 404 "Resume not found" when the file is
\* absent, 200 application/pdf with the file's bytes when it is readable,
\* and 500 "Failed to read resume" only when it is present and unreadable.
C7_ResumeReplies ==
    \A r \in Requests :
        (requests[r].route = "resume" /\ Done(r)) =>
            /\ Len(requests[r].resp) = 1
            /\ LET resp == requests[r].resp[1]
               IN  /\ ~file.exists =>
                        /\ resp.status = 404
                        /\ resp.body = [error |-> "Resume not found"]
                   /\ (file.exists /\ file.readable) =>
                        /\ resp.status = 200
                        /\ resp.content_type = "application/pdf"
                        /\ resp.body = file.bytes
                   /\ (file.exists /\ ~file.readable) =>
                        /\ resp.status = 500
                        /\ resp.body = [error |-> "Failed to read resume"]
                   /\ resp.status = 500 => (file.exists /\ ~file.readable)

C7_Witness ==
    \E r \in Requests :
        /\ requests[r].route = "resume" /\ Done(r)
        /\ requests[r].resp[1].status = 200
        /\ requests[r].resp[1].body = file.bytes
        /\ Len(file.bytes) > 0

\* C8: every POST /api/contact with a parsed body is eventually answered,
\* once, whatever the validation, the configuration and the gateway do, and
\* the server stays up.
C8_ContactAnswered ==
    /\ \A r \in Requests :
          (requests[r].pc = "pending" /\ IsContact(r))
              ~> (Done(r) /\ Len(requests[r].resp) = 1)
    /\ [](running /\ \A r \in Requests : Len(requests[r].resp) <= 1)

C8_Witness ==
    \E r, q \in Requests :
        /\ Accepted(r) /\ Done(r) /\ requests[r].gateway[1].kind = "http"
        /\ requests[r].gateway[1].status = 500 /\ Len(requests[r].resp) = 1
        /\ IsContact(q) /\ Done(q) /\ requests[q].resp[1].status = 400

\* C9 as stated: while a request is suspended in its gateway call or in its
\* file read, any other request that has arrived can be handled.
C9_NoBlocking ==
    \A r, q \in Requests :
        (r # q /\ requests[r].pc \in {"sending", "reading"} /\ requests[q].pc = "pending")
            => ENABLED Handle(q)

\* C10 as stated: no control or null character of a submitted field reaches
\* the log line, the subject or the HTML body.
C10_OutboundSanitized ==
    \A r \in Requests :
        /\ \A i \in 1..Len(requests[r].outbound) :
              /\ \A k \in 1..Len(requests[r].outbound[i].subject) :
                    ~HasControl(requests[r].outbound[i].subject[k])
              /\ \A k \in 1..Len(requests[r].outbound[i].html_content) :
                    ~HasControl(requests[r].outbound[i].html_content[k])
        /\ \A i \in 1..Len(requests[r].log) :
              requests[r].log[i].line = "Contact form submitted" =>
                  \A k \in 1..3 : ~HasControl(requests[r].log[i].args[k])

=============================================================================
